---- MODULE Spec2Model ----
(***************************************************************************)
(* The bonecoin wallet (src/src/lib.rs) synchronising against the mock     *)
(* node of bonecoin-core (src/bonecoin-core/src/node.rs).                  *)
(*                                                                         *)
(* Hashes (bonecoin-core/src/lib.rs `hash`) are modelled as injective      *)
(* tagging of the hashed content: an identifier is the tuple of the        *)
(* fields that are fed to the hasher, so two identifiers are equal iff     *)
(* the hashed contents are equal.                                          *)
(*                                                                         *)
(* Five specifications:                                                    *)
(*   Spec      the wallet syncing against a MockNode that may reorganise   *)
(*   SpecGrow  the same on a ledger whose canonical chain only grows and   *)
(*             whose endpoint may fail to deliver a block                  *)
(*   SpecTx    one operation (a query, a transaction builder or a sync)    *)
(*             applied to a wallet that was newly constructed and, or      *)
(*             not yet, synced on a chain, as the repository's             *)
(*             transaction tests do                                        *)
(*   SpecReorg one sync of a synced wallet after the node has moved to a   *)
(*             second branch, as the repository's reorg tests do           *)
(*   SpecConc  the same sync taken query by query, the node's best block   *)
(*             moving between two queries                                  *)
(***************************************************************************)
EXTENDS Integers, Sequences, FiniteSets, TLC

\* Bounds of the exploration.
MaxBlocks == 3      \* blocks the node's database may hold besides genesis
MaxBody   == 2      \* transactions in the body of one block
MaxInputs == 2      \* coin ids in one create_manual_transaction request
MaxBranch == 2      \* height of each of the two chains of a reorg fixture

\* Amounts, tips and coin values are u64. The number q * 2^64 + r is written
\* <<q, r>>, with q and r small integers (r may be negative): the numbers near 0
\* and near the multiples of 2^64, on which the arithmetic below is exact.
U64(n) == <<0, n>>

\* u64::MAX = 2^64 - 1
MaxU64 == <<1, -1>>

\* a + b, a - b, a < b and a <= b of such numbers
Plus(a, b)  == <<a[1] + b[1], a[2] + b[2]>>
Minus(a, b) == <<a[1] - b[1], a[2] - b[2]>>
Less(a, b)  == a[1] < b[1] \/ (a[1] = b[1] /\ a[2] < b[2])
Leq(a, b)   == a = b \/ Less(a, b)

VARIABLES
    blocks,             \* MockNode.blocks : BlockId -> Block
    best_block,         \* MockNode.best_block
    addresses,          \* Wallet.addresses
    coins,              \* Wallet.coins : set of <<CoinId, Coin>>
    best_block_height,  \* Wallet.best_block_height
    best_block_hash,    \* Wallet.best_block_hash
    last                \* history: the last operation, its inputs and its result

vars == <<blocks, best_block, addresses, coins, best_block_height, best_block_hash, last>>

----------------------------------------------------------------------------
\* Option<T>
None    == <<>>
Some(x) == <<x>>

\* WalletResult<T>
Ok(v)  == [ok |-> TRUE, val |-> v]
Err(e) == [ok |-> FALSE, err |-> e]

----------------------------------------------------------------------------
\* Entity model (bonecoin-core)

Address == {"Alice", "Bob", "Charlie"}

SigInvalid    == <<"Invalid">>
SigValid(a)   == <<"Valid", a>>

Coin(v, o) == [value |-> v, owner |-> o]

\* Input::dummy(): the coin id is a fixed raw number, no hash of a transaction
DummyCoinId == <<"2718281828459045">>
dummy       == [coin_id |-> DummyCoinId, signature |-> SigInvalid]

Tx(ins, outs) == [inputs |-> ins, outputs |-> outs]

\* Transaction::id : hash of the whole transaction (inputs and outputs)
transaction_id(tx) == <<tx.inputs, tx.outputs>>

\* Transaction::coin_id : hash of (transaction id, block number, output index);
\* output_index is 0-based as in the source
coin_id(tx, block_number, output_index) ==
    <<transaction_id(tx), block_number, output_index>>

\* The sentinel parent BlockId(0) of genesis
BlockIdZero == <<>>

\* Block::id : hash of the whole block (parent, number, body)
block_id(b) == <<b.parent, b.number, b.body>>

\* Block::genesis
genesis == [parent |-> BlockIdZero, number |-> 0, body |-> <<>>]

----------------------------------------------------------------------------
\* MockNode (bonecoin-core/src/node.rs)

RECURSIVE WalkBack(_, _, _)
\* the `while b.number != h` loop of best_block_at_height
WalkBack(blks, b, h) ==
    IF b.number = h THEN b ELSE WalkBack(blks, blks[b.parent], h)

\* mutant of best_block_at_height: the best block's own height is refused too
best_block_at_height_StrictBound(blks, best, h) ==
    LET b == blks[best]
    IN  IF h >= b.number THEN None ELSE Some(block_id(WalkBack(blks, b, h)))

\* MockNode::best_block_at_height
best_block_at_height(blks, best, h) ==
    LET b == blks[best]
    IN  IF h > b.number THEN None ELSE Some(block_id(WalkBack(blks, b, h)))

\* mutant of entire_block: a block that has a child is not delivered
entire_block_TipsOnly(blks, id) ==
    IF id \in DOMAIN blks /\ \A c \in DOMAIN blks : blks[c].number = 0 \/ blks[c].parent # id
    THEN Some(blks[id]) ELSE None

\* MockNode::entire_block
entire_block(blks, id) ==
    IF id \in DOMAIN blks THEN Some(blks[id]) ELSE None

\* MockNode.calls_so_far after n_bbah calls of best_block_at_height, each of
\* which adds 1 to it (node.rs 38), and n_eb calls of entire_block, which does
\* not touch it (node.rs 58-60)
calls_so_far_after(calls_so_far, n_bbah, n_eb) == calls_so_far + n_bbah

\* MockNode::how_many_queries
how_many_queries(calls_so_far) == calls_so_far

\* NodeEndpoint::entire_block of an endpoint that cannot deliver the blocks in
\* `lost` (the trait allows None for any id); MockNode itself is lost = {}
fetch_block(blks, lost, id) ==
    IF id \in lost THEN None ELSE entire_block(blks, id)

\* The block MockNode::add_block builds on top of parent_id
new_block(blks, parent_id, body) ==
    [parent |-> parent_id, number |-> blks[parent_id].number + 1, body |-> body]

\* MockNode::add_block : the database after the insert
add_block(blks, parent_id, body) ==
    LET b == new_block(blks, parent_id, body)
    IN  [i \in DOMAIN blks \cup {block_id(b)} |-> IF i = block_id(b) THEN b ELSE blks[i]]

RECURSIVE IsAncestorOrSelf(_, _, _)
\* a is b or an ancestor of b in the node's fork tree (history bookkeeping)
IsAncestorOrSelf(blks, a, b) ==
    IF a = b THEN TRUE
    ELSE IF blks[b].number = 0 THEN FALSE
    ELSE IsAncestorOrSelf(blks, a, blks[b].parent)

----------------------------------------------------------------------------
\* Wallet (src/src/lib.rs)

\* unwrap_or(Block::genesis().id()) on an Option<BlockId>
unwrap_or_genesis(o) == IF o = None THEN block_id(genesis) ELSE o[1]

\* mutant of ApplyInputs: spent coins are not removed
ApplyInputs_KeepsSpent(cs, ins) == cs

RECURSIVE ApplyInputs(_, _)
\* for input in &transaction.inputs { self.coins.retain(|(id, _)| id != &input.coin_id) }
ApplyInputs(cs, ins) ==
    IF ins = <<>> THEN cs
    ELSE ApplyInputs({p \in cs : p[1] # Head(ins).coin_id}, Tail(ins))

\* mutant of ApplyOutputs: the owner is not checked
ApplyOutputs_NoOwnerFilter(cs, addrs, tx, block_number) ==
    cs \cup { <<coin_id(tx, block_number, i - 1), tx.outputs[i]>> : i \in 1..Len(tx.outputs) }

\* for (index, coin) in outputs.enumerate(): insert if the owner is tracked
ApplyOutputs(cs, addrs, tx, block_number) ==
    cs \cup { <<coin_id(tx, block_number, i - 1), tx.outputs[i]>> :
                i \in {j \in 1..Len(tx.outputs) : tx.outputs[j].owner \in addrs} }

\* one iteration of `for transaction in &block.body`
ApplyTransaction(cs, addrs, tx, block_number) ==
    ApplyOutputs(ApplyInputs(cs, tx.inputs), addrs, tx, block_number)

RECURSIVE ApplyBody_Reversed(_, _, _, _)
\* mutant of ApplyBody: the transactions are applied last to first
ApplyBody_Reversed(cs, addrs, body, block_number) ==
    IF body = <<>> THEN cs
    ELSE ApplyTransaction(ApplyBody_Reversed(cs, addrs, Tail(body), block_number),
                          addrs, Head(body), block_number)

RECURSIVE ApplyBody(_, _, _, _)
\* `for transaction in &block.body`, in listed order
ApplyBody(cs, addrs, body, block_number) ==
    IF body = <<>> THEN cs
    ELSE ApplyBody(ApplyTransaction(cs, addrs, Head(body), block_number),
                   addrs, Tail(body), block_number)

\* A sync in progress: the wallet's mutable fields plus the queries issued so far
\*   coins, h (best_block_height), hash (best_block_hash),
\*   bbah (best_block_at_height calls), eb (entire_block calls),
\*   applied (ids of the blocks applied by the forward phase, in order)

RECURSIVE SyncRollback_ToGenesis(_, _, _)
\* mutant of SyncRollback: the loop does not stop where the block ids match
SyncRollback_ToGenesis(blks, best, s) ==
    LET r == best_block_at_height(blks, best, s.h)
        q == [s EXCEPT !.bbah = @ + 1]
    IN  IF r = None THEN q
        ELSE IF s.h = 0 THEN q
        ELSE SyncRollback_ToGenesis(blks, best,
                [q EXCEPT !.h = s.h - 1,
                          !.hash = unwrap_or_genesis(best_block_at_height(blks, best, s.h - 1)),
                          !.bbah = @ + 1])

RECURSIVE SyncRollback(_, _, _)
\* the first loop of sync: `while let Some(block_id) = node.best_block_at_height(h)`
SyncRollback(blks, best, s) ==
    LET r == best_block_at_height(blks, best, s.h)
        q == [s EXCEPT !.bbah = @ + 1]
    IN  IF r = None THEN q
        ELSE IF r[1] = s.hash THEN q
        ELSE IF s.h = 0 THEN q
        ELSE SyncRollback(blks, best,
                [q EXCEPT !.h = s.h - 1,
                          !.hash = unwrap_or_genesis(best_block_at_height(blks, best, s.h - 1)),
                          !.bbah = @ + 1])

\* mutant of SyncClear: the cursor is reset and the coin set is kept
SyncClear_KeepsCoins(blks, best, s) ==
    LET q == [s EXCEPT !.bbah = @ + 1]
    IN  IF s.hash # unwrap_or_genesis(best_block_at_height(blks, best, s.h))
        THEN [q EXCEPT !.h = 0, !.hash = block_id(genesis)]
        ELSE q

\* mutant of SyncClear: the store is never cleared
SyncClear_NeverClears(blks, best, s) == [s EXCEPT !.bbah = @ + 1]

\* mutant of SyncClear: every sync starts over from genesis
SyncClear_AlwaysClears(blks, best, s) ==
    [s EXCEPT !.bbah = @ + 1, !.coins = {}, !.h = 0, !.hash = block_id(genesis)]

\* the `if self.best_block_hash != node.best_block_at_height(h).unwrap_or(genesis)` block
SyncClear(blks, best, s) ==
    LET q == [s EXCEPT !.bbah = @ + 1]
    IN  IF s.hash # unwrap_or_genesis(best_block_at_height(blks, best, s.h))
        THEN [q EXCEPT !.coins = {}, !.h = 0, !.hash = block_id(genesis)]
        ELSE q

RECURSIVE SyncForward_KeepsHash(_, _, _, _, _)
\* mutant of SyncForward: best_block_hash is not updated with a block applied
SyncForward_KeepsHash(blks, best, lost, addrs, s) ==
    LET r == best_block_at_height(blks, best, s.h + 1)
        q == [s EXCEPT !.bbah = @ + 1]
    IN  IF r = None THEN q
        ELSE LET e == fetch_block(blks, lost, r[1])
                 qq == [q EXCEPT !.eb = @ + 1]
             IN  IF e = None THEN qq
                 ELSE SyncForward_KeepsHash(blks, best, lost, addrs,
                        [qq EXCEPT !.coins = ApplyBody(s.coins, addrs, e[1].body, e[1].number),
                                   !.h = e[1].number,
                                   !.applied = Append(@, r[1])])

RECURSIVE SyncForward_AdvancesOnFailure(_, _, _, _, _)
\* mutant of SyncForward: the cursor moves to a block before its fetch is checked
SyncForward_AdvancesOnFailure(blks, best, lost, addrs, s) ==
    LET r == best_block_at_height(blks, best, s.h + 1)
        q == [s EXCEPT !.bbah = @ + 1]
    IN  IF r = None THEN q
        ELSE LET e == fetch_block(blks, lost, r[1])
                 qq == [q EXCEPT !.eb = @ + 1, !.h = s.h + 1, !.hash = r[1]]
             IN  IF e = None THEN qq
                 ELSE SyncForward_AdvancesOnFailure(blks, best, lost, addrs,
                        [qq EXCEPT !.coins = ApplyBody(s.coins, addrs, e[1].body, e[1].number),
                                   !.applied = Append(@, r[1])])

RECURSIVE SyncForward_ResetsOnFailure(_, _, _, _, _)
\* mutant of SyncForward: a failed fetch throws the progress of the wallet away
SyncForward_ResetsOnFailure(blks, best, lost, addrs, s) ==
    LET r == best_block_at_height(blks, best, s.h + 1)
        q == [s EXCEPT !.bbah = @ + 1]
    IN  IF r = None THEN q
        ELSE LET e == fetch_block(blks, lost, r[1])
                 qq == [q EXCEPT !.eb = @ + 1]
             IN  IF e = None
                 THEN [qq EXCEPT !.coins = {}, !.h = 0, !.hash = block_id(genesis)]
                 ELSE SyncForward_ResetsOnFailure(blks, best, lost, addrs,
                        [qq EXCEPT !.coins = ApplyBody(s.coins, addrs, e[1].body, e[1].number),
                                   !.h = e[1].number,
                                   !.hash = r[1],
                                   !.applied = Append(@, r[1])])

RECURSIVE SyncForward_SkipsOne(_, _, _, _, _)
\* mutant of SyncForward: the loop asks for the block two heights above the cursor
SyncForward_SkipsOne(blks, best, lost, addrs, s) ==
    LET r == best_block_at_height(blks, best, s.h + 2)
        q == [s EXCEPT !.bbah = @ + 1]
    IN  IF r = None THEN q
        ELSE LET e == fetch_block(blks, lost, r[1])
                 qq == [q EXCEPT !.eb = @ + 1]
             IN  IF e = None THEN qq
                 ELSE SyncForward_SkipsOne(blks, best, lost, addrs,
                        [qq EXCEPT !.coins = ApplyBody(s.coins, addrs, e[1].body, e[1].number),
                                   !.h = e[1].number,
                                   !.hash = r[1],
                                   !.applied = Append(@, r[1])])

RECURSIVE SyncForward(_, _, _, _, _)
\* the last loop of sync: `while let Some(block_id) = node.best_block_at_height(h + 1)`
SyncForward(blks, best, lost, addrs, s) ==
    LET r == best_block_at_height(blks, best, s.h + 1)
        q == [s EXCEPT !.bbah = @ + 1]
    IN  IF r = None THEN q
        ELSE LET e == fetch_block(blks, lost, r[1])
                 qq == [q EXCEPT !.eb = @ + 1]
             IN  IF e = None THEN qq
                 ELSE SyncForward(blks, best, lost, addrs,
                        [qq EXCEPT !.coins = ApplyBody(s.coins, addrs, e[1].body, e[1].number),
                                   !.h = e[1].number,
                                   !.hash = r[1],
                                   !.applied = Append(@, r[1])])

\* Wallet::sync as a whole
sync(blks, best, lost, addrs, cs, h, hash) ==
    SyncForward(blks, best, lost, addrs,
        SyncClear(blks, best,
            SyncRollback(blks, best,
                [coins |-> cs, h |-> h, hash |-> hash, bbah |-> 0, eb |-> 0, applied |-> <<>>])))

\* mutant of new: the cursor starts at the sentinel parent id, not at genesis
new_SentinelHash(addrs) ==
    [addresses |-> addrs, coins |-> {}, best_block_height |-> 0,
     best_block_hash |-> BlockIdZero]

\* Wallet::new
new(addrs) ==
    [addresses |-> addrs, coins |-> {}, best_block_height |-> 0,
     best_block_hash |-> block_id(genesis)]

\* Wallet::best_height, Wallet::best_hash
best_height(h) == h
best_hash(hash) == hash

\* a panic of the program (unwrap on None, arithmetic overflow with overflow checks)
Panic(msg) == [panic |-> msg]

\* the call ended in a panic
IsPanic(r) == "panic" \in DOMAIN r

\* u64 addition: with overflow checks (debug build) an overflow panics, without
\* (release build) the sum wraps around
AddU64(a, b, overflow_checks) ==
    IF Less(MaxU64, Plus(a, b))
    THEN IF overflow_checks THEN Panic("attempt to add with overflow")
         ELSE Ok(Minus(Plus(a, b), <<1, 0>>))
    ELSE Ok(Plus(a, b))

RECURSIVE SumValues(_, _)
\* .map(|(_, coin)| coin.value).sum() over a set of (CoinId, Coin) pairs: the
\* u64 additions of the build, in which an overflow panics or wraps
SumValues(cs, overflow_checks) ==
    IF cs = {} THEN Ok(U64(0))
    ELSE LET p    == CHOOSE x \in cs : TRUE
             rest == SumValues(cs \ {p}, overflow_checks)
         IN  IF IsPanic(rest) THEN rest
             ELSE AddU64(rest.val, p[2].value, overflow_checks)

\* mutant of total_assets_of: a foreign address yields the sum of its coins
total_assets_of_NoForeignCheck(addrs, cs, address, overflow_checks) ==
    SumValues({p \in cs : p[2].owner = address}, overflow_checks)

\* Wallet::total_assets_of: Ok(total), Err(ForeignAddress), or the panic of the sum
total_assets_of(addrs, cs, address, overflow_checks) ==
    IF address \notin addrs THEN Err("ForeignAddress")
    ELSE SumValues({p \in cs : p[2].owner = address}, overflow_checks)

\* Wallet::net_worth: the total, or the panic of the sum
net_worth(cs, overflow_checks) ==
    LET total == SumValues(cs, overflow_checks)
    IN  IF IsPanic(total) THEN total ELSE total.val

\* Wallet::all_coins_of
all_coins_of(addrs, cs, address) ==
    IF address \notin addrs THEN Err("ForeignAddress")
    ELSE Ok({<<p[1], p[2].value>> : p \in {q \in cs : q[2].owner = address}})

\* mutant of coin_details: the id of the stored coin is not compared
coin_details_AnyCoin(cs, id) ==
    IF cs # {} THEN Ok((CHOOSE p \in cs : TRUE)[2]) ELSE Err("UnknownCoin")

\* Wallet::coin_details
coin_details(cs, id) ==
    IF \E p \in cs : p[1] = id
    THEN Ok((CHOOSE p \in cs : p[1] = id)[2])
    ELSE Err("UnknownCoin")

\* the signature create_manual_transaction puts on every input
ManualSignature(cs, id) == SigValid("Alice")

\* mutant of ManualInputs: the inputs are built in the opposite order
ManualInputs_Reversed(cs, input_coin_ids) ==
    [i \in 1..Len(input_coin_ids) |->
        [coin_id |-> input_coin_ids[Len(input_coin_ids) + 1 - i],
         signature |-> ManualSignature(cs, input_coin_ids[Len(input_coin_ids) + 1 - i])]]

\* input_coin_ids.into_iter().map(|coin_id| Input { coin_id, signature }).collect()
ManualInputs(cs, input_coin_ids) ==
    [i \in 1..Len(input_coin_ids) |->
        [coin_id |-> input_coin_ids[i],
         signature |-> ManualSignature(cs, input_coin_ids[i])]]

\* self.coins.iter().any(|(id, _)| id == coin_id)
KnownCoin(cs, id) == \E p \in cs : p[1] = id

\* mutant of create_manual_transaction: the outputs are checked before the inputs
create_manual_transaction_OutputsFirst(cs, input_coin_ids, output_coins) ==
    IF \E i \in 1..Len(output_coins) : output_coins[i].value = U64(0)
    THEN Err("ZeroCoinValue")
    ELSE IF input_coin_ids = <<>> THEN Err("ZeroInputs")
    ELSE IF \E i \in 1..Len(input_coin_ids) : ~KnownCoin(cs, input_coin_ids[i])
         THEN Err("UnknownCoin")
    ELSE Ok(Tx(ManualInputs(cs, input_coin_ids), output_coins))

\* mutant of create_manual_transaction: only the first input id is looked up
create_manual_transaction_FirstInputOnly(cs, input_coin_ids, output_coins) ==
    IF input_coin_ids = <<>> THEN Err("ZeroInputs")
    ELSE IF \E i \in 1..Len(output_coins) : output_coins[i].value = U64(0)
         THEN Err("ZeroCoinValue")
    ELSE IF ~KnownCoin(cs, input_coin_ids[1])
         THEN Err("UnknownCoin")
    ELSE Ok(Tx(ManualInputs(cs, input_coin_ids), output_coins))

\* mutant of create_manual_transaction: only the first output is checked
create_manual_transaction_FirstOutputOnly(cs, input_coin_ids, output_coins) ==
    IF input_coin_ids = <<>> THEN Err("ZeroInputs")
    ELSE IF output_coins # <<>> /\ output_coins[1].value = U64(0)
         THEN Err("ZeroCoinValue")
    ELSE IF \E i \in 1..Len(input_coin_ids) : ~KnownCoin(cs, input_coin_ids[i])
         THEN Err("UnknownCoin")
    ELSE Ok(Tx(ManualInputs(cs, input_coin_ids), output_coins))

\* Wallet::create_manual_transaction; the checks run in the order of the source:
\* empty inputs, then a zero-value output, then an unknown input id
create_manual_transaction(cs, input_coin_ids, output_coins) ==
    IF input_coin_ids = <<>> THEN Err("ZeroInputs")
    ELSE IF \E i \in 1..Len(output_coins) : output_coins[i].value = U64(0)
         THEN Err("ZeroCoinValue")
    ELSE IF \E i \in 1..Len(input_coin_ids) : ~KnownCoin(cs, input_coin_ids[i])
         THEN Err("UnknownCoin")
    ELSE Ok(Tx(ManualInputs(cs, input_coin_ids), output_coins))

RECURSIVE SelectCoins(_, _, _, _, _)
\* `for (coin_id, coin) in &self.coins { push; total_selected += value; if >= break }`
\* over the coins in the iteration order `order` of the HashSet
SelectCoins(order, total_needed, selected_coins, total_selected, overflow_checks) ==
    IF order = <<>> THEN Ok([selected_coins |-> selected_coins, total_selected |-> total_selected])
    ELSE LET sum == AddU64(total_selected, Head(order)[2].value, overflow_checks)
         IN  IF IsPanic(sum) THEN sum
             ELSE IF Leq(total_needed, sum.val)
                  THEN Ok([selected_coins |-> Append(selected_coins, Head(order)),
                           total_selected |-> sum.val])
                  ELSE SelectCoins(Tail(order), total_needed,
                                   Append(selected_coins, Head(order)), sum.val,
                                   overflow_checks)

\* the change output of create_automatic_transaction
ChangeOutputs(first_address, total_selected, total_needed) ==
    IF Less(total_needed, total_selected)
    THEN <<Coin(Minus(total_selected, total_needed), first_address[1])>>
    ELSE <<>>

\* create_automatic_transaction from `let total_needed = ...` on (lib.rs 141-184)
SelectAndBuild(order, first_address, overflow_checks, recipient, payment_amount, burn_aka_tip) ==
    LET needed == AddU64(payment_amount, burn_aka_tip, overflow_checks)
    IN  IF IsPanic(needed) THEN needed
        ELSE LET sel == SelectCoins(order, needed.val, <<>>, U64(0), overflow_checks)
             IN  IF IsPanic(sel) THEN sel
                 ELSE IF Less(sel.val.total_selected, needed.val)
                      THEN Err("InsufficientFunds")
                 ELSE IF Less(needed.val, sel.val.total_selected) /\ first_address = None
                      THEN Panic("unwrap on None")
                 ELSE Ok(Tx([i \in 1..Len(sel.val.selected_coins) |->
                                [coin_id |-> sel.val.selected_coins[i][1],
                                 signature |-> SigValid(sel.val.selected_coins[i][2].owner)]],
                            <<Coin(payment_amount, recipient)>> \o
                              ChangeOutputs(first_address, sel.val.total_selected,
                                            needed.val)))

\* mutant of create_automatic_transaction: the zero check looks at payment
\* plus tip
create_automatic_transaction_ZeroTotal(order, first_address, overflow_checks, recipient, payment_amount, burn_aka_tip) ==
    IF Plus(payment_amount, burn_aka_tip) = U64(0) THEN Err("ZeroCoinValue")
    ELSE SelectAndBuild(order, first_address, overflow_checks,
                        recipient, payment_amount, burn_aka_tip)

\* Wallet::create_automatic_transaction
\*   order           the order in which `&self.coins` iterates (a HashSet)
\*   first_address   self.addresses.iter().next() : None, or Some of any address
\*   overflow_checks whether the build checks arithmetic overflow
create_automatic_transaction(order, first_address, overflow_checks, recipient, payment_amount, burn_aka_tip) ==
    IF payment_amount = U64(0) THEN Err("ZeroCoinValue")
    ELSE SelectAndBuild(order, first_address, overflow_checks,
                        recipient, payment_amount, burn_aka_tip)

----------------------------------------------------------------------------
\* Inputs of the exploration

\* the address sets a wallet is created with
AddressSets == {{}, {"Alice", "Bob"}}

\* a mint: consumes the dummy input, pays Alice (output 0) and Charlie (output 1).
\* Alice receives u64::MAX - 1: one such coin and a coin of 1 fit in a u64, two
\* such coins do not
Mint == Tx(<<dummy>>, <<Coin(Minus(MaxU64, U64(1)), "Alice"), Coin(U64(1), "Charlie")>>)

\* a spend at height h: consumes Alice's coin of the mint of the parent block and
\* of the mint of the same block, pays Bob
Spend(h) ==
    Tx(<<[coin_id |-> coin_id(Mint, h - 1, 0), signature |-> SigValid("Alice")],
         [coin_id |-> coin_id(Mint, h, 0), signature |-> SigInvalid]>>,
       <<Coin(U64(1), "Bob")>>)

TxChoices(h) == {Mint, Spend(h)}

RECURSIVE SeqsUpTo(_, _)
\* the sequences of distinct elements of S of length at most n
SeqsUpTo(S, n) ==
    IF n = 0 THEN {<<>>}
    ELSE LET shorter == SeqsUpTo(S, n - 1)
         IN  shorter \cup UNION { {Append(q, x) : x \in {y \in S : \A k \in 1..Len(q) : q[k] # y}} :
                                     q \in {p \in shorter : Len(p) = n - 1} }

\* the bodies of a block at height h: a block holds a transaction at most once
Bodies(h) == SeqsUpTo(TxChoices(h), MaxBody)

\* what an endpoint may fail to deliver during one sync: nothing, or one block of
\* the canonical chain (the first missing block ends the sync)
LostChoices(blks, best) ==
    {{}} \cup {{best_block_at_height(blks, best, h)[1]} : h \in 1..blks[best].number}

RECURSIVE SeqsOf(_, _)
\* the sequences over S of length at most n, repetitions allowed
SeqsOf(S, n) ==
    IF n = 0 THEN {<<>>}
    ELSE LET shorter == SeqsOf(S, n - 1)
         IN  shorter \cup UNION { {Append(q, x) : x \in S} :
                                     q \in {p \in shorter : Len(p) = n - 1} }

\* a coin id no block of the exploration creates
AbsentCoinId == coin_id(Tx(<<dummy>>, <<>>), 1, 0)

\* the coin ids of a coin_details request: every output of every known block,
\* and an absent id
CoinIdChoices ==
    {AbsentCoinId} \cup
    UNION { UNION { {coin_id(blocks[b].body[t], blocks[b].number, i - 1) :
                        i \in 1..Len(blocks[b].body[t].outputs)} :
                    t \in 1..Len(blocks[b].body) } :
            b \in DOMAIN blocks }

\* the input id lists of a create_manual_transaction request: ids of the store
\* and an absent id, in any order, a coin id possibly twice
InputIdLists(cs) == SeqsOf({p[1] : p \in cs} \cup {AbsentCoinId}, MaxInputs)

\* the output lists of a create_manual_transaction request
OutputLists ==
    { <<>>,
      <<Coin(U64(0), "Alice")>>,
      <<Coin(U64(3), "Charlie"), Coin(U64(1), "Bob")>>,
      <<Coin(U64(1), "Bob"), Coin(U64(0), "Charlie")>> }

\* the orders in which a HashSet holding cs may iterate
Orders(cs) == {q \in SeqsUpTo(cs, Cardinality(cs)) : Len(q) = Cardinality(cs)}

\* the outcomes of self.addresses.iter().next()
FirstAddresses(addrs) == IF addrs = {} THEN {None} ELSE {Some(a) : a \in addrs}

\* the requests of create_automatic_transaction
Recipients == {"Bob", "Charlie"}
Amounts    == {U64(0), U64(1), U64(3), MaxU64}
Tips       == {U64(0), U64(1)}

----------------------------------------------------------------------------
Init ==
    /\ blocks = [i \in {block_id(genesis)} |-> genesis]
    /\ best_block = block_id(genesis)
    /\ \E addrs \in AddressSets :
          /\ addresses = new(addrs).addresses
          /\ coins = new(addrs).coins
          /\ best_block_height = new(addrs).best_block_height
          /\ best_block_hash = new(addrs).best_block_hash
          /\ last = [op |-> "new", addrs |-> addrs]

\* Wallet::new : the program replaces its wallet by a newly constructed one
New(addrs) ==
    /\ addresses' = new(addrs).addresses
    /\ coins' = new(addrs).coins
    /\ best_block_height' = new(addrs).best_block_height
    /\ best_block_hash' = new(addrs).best_block_hash
    /\ last' = [op |-> "new", addrs |-> addrs]
    /\ UNCHANGED <<blocks, best_block>>

\* mutant of AddBlock: the added block becomes the best block
AddBlock_MovesBest(parent_id, body) ==
    /\ Cardinality(DOMAIN blocks) <= MaxBlocks
    /\ blocks' = add_block(blocks, parent_id, body)
    /\ best_block' = block_id(new_block(blocks, parent_id, body))
    /\ last' = [op |-> "node"]
    /\ UNCHANGED <<addresses, coins, best_block_height, best_block_hash>>

\* MockNode::add_block
AddBlock(parent_id, body) ==
    /\ Cardinality(DOMAIN blocks) <= MaxBlocks
    /\ blocks' = add_block(blocks, parent_id, body)
    /\ last' = [op |-> "node"]
    /\ UNCHANGED <<best_block, addresses, coins, best_block_height, best_block_hash>>

\* MockNode::set_best (new_best known; the unknown case panics)
SetBest(new_best) ==
    /\ best_block' = new_best
    /\ last' = [op |-> "node"]
    /\ UNCHANGED <<blocks, addresses, coins, best_block_height, best_block_hash>>

\* MockNode::add_block_as_best
AddBlockAsBest(parent_id, body) ==
    /\ Cardinality(DOMAIN blocks) <= MaxBlocks
    /\ blocks' = add_block(blocks, parent_id, body)
    /\ best_block' = block_id(new_block(blocks, parent_id, body))
    /\ last' = [op |-> "node"]
    /\ UNCHANGED <<addresses, coins, best_block_height, best_block_hash>>

\* Wallet::sync against an endpoint that cannot deliver the blocks in `lost`
\* (rb and cl record the wallet as the rollback loop and the clearing block leave it)
Sync(lost) ==
    LET s  == sync(blocks, best_block, lost, addresses, coins, best_block_height, best_block_hash)
        rb == SyncRollback(blocks, best_block,
                [coins |-> coins, h |-> best_block_height, hash |-> best_block_hash,
                 bbah |-> 0, eb |-> 0, applied |-> <<>>])
        cl == SyncClear(blocks, best_block, rb)
    IN  /\ coins' = s.coins
        /\ best_block_height' = s.h
        /\ best_block_hash' = s.hash
        /\ last' = [op |-> "sync", lost |-> lost,
                    pre |-> [coins |-> coins, h |-> best_block_height, hash |-> best_block_hash],
                    rb |-> [h |-> rb.h, hash |-> rb.hash, bbah |-> rb.bbah],
                    cl |-> [coins |-> cl.coins, h |-> cl.h, hash |-> cl.hash],
                    bbah |-> s.bbah, eb |-> s.eb, applied |-> s.applied]
        /\ UNCHANGED <<blocks, best_block, addresses>>

\* Wallet::coin_details (&self: the wallet is left as it is)
CoinDetails(id) ==
    /\ last' = [op |-> "coin_details", id |-> id, res |-> coin_details(coins, id)]
    /\ UNCHANGED <<blocks, best_block, addresses, coins, best_block_height, best_block_hash>>

\* mutant of CreateManualTransaction: the coins a transaction spends leave the
\* store as soon as the transaction is built
CreateManualTransaction_SpendsInputs(input_coin_ids, output_coins) ==
    LET res == create_manual_transaction(coins, input_coin_ids, output_coins)
    IN  /\ last' = [op |-> "manual", ids |-> input_coin_ids, outs |-> output_coins, res |-> res]
        /\ coins' = IF res.ok
                     THEN {p \in coins : \A i \in 1..Len(input_coin_ids) : input_coin_ids[i] # p[1]}
                     ELSE coins
        /\ UNCHANGED <<blocks, best_block, addresses, best_block_height, best_block_hash>>

\* Wallet::create_manual_transaction (&self: the wallet is left as it is)
CreateManualTransaction(input_coin_ids, output_coins) ==
    /\ last' = [op |-> "manual", ids |-> input_coin_ids, outs |-> output_coins,
                res |-> create_manual_transaction(coins, input_coin_ids, output_coins)]
    /\ UNCHANGED <<blocks, best_block, addresses, coins, best_block_height, best_block_hash>>

\* Wallet::create_automatic_transaction (&self: the wallet is left as it is)
CreateAutomaticTransaction(order, first_address, overflow_checks, recipient, payment_amount, burn_aka_tip) ==
    /\ last' = [op |-> "auto", recipient |-> recipient, amount |-> payment_amount,
                tip |-> burn_aka_tip,
                res |-> create_automatic_transaction(order, first_address, overflow_checks,
                                                     recipient, payment_amount, burn_aka_tip)]
    /\ UNCHANGED <<blocks, best_block, addresses, coins, best_block_height, best_block_hash>>

\* Wallet::best_height (&self: the wallet is left as it is)
BestHeight ==
    /\ last' = [op |-> "best_height", res |-> best_height(best_block_height)]
    /\ UNCHANGED <<blocks, best_block, addresses, coins, best_block_height, best_block_hash>>

\* Wallet::best_hash (&self: the wallet is left as it is)
BestHash ==
    /\ last' = [op |-> "best_hash", res |-> best_hash(best_block_hash)]
    /\ UNCHANGED <<blocks, best_block, addresses, coins, best_block_height, best_block_hash>>

\* Wallet::total_assets_of (&self: the wallet is left as it is)
TotalAssetsOf(address, overflow_checks) ==
    /\ last' = [op |-> "total_assets_of", address |-> address,
                overflow_checks |-> overflow_checks,
                res |-> total_assets_of(addresses, coins, address, overflow_checks)]
    /\ UNCHANGED <<blocks, best_block, addresses, coins, best_block_height, best_block_hash>>

\* Wallet::net_worth (&self: the wallet is left as it is)
NetWorth(overflow_checks) ==
    /\ last' = [op |-> "net_worth", overflow_checks |-> overflow_checks,
                res |-> net_worth(coins, overflow_checks)]
    /\ UNCHANGED <<blocks, best_block, addresses, coins, best_block_height, best_block_hash>>

\* Wallet::all_coins_of (&self: the wallet is left as it is)
AllCoinsOf(address) ==
    /\ last' = [op |-> "all_coins_of", address |-> address,
                res |-> all_coins_of(addresses, coins, address)]
    /\ UNCHANGED <<blocks, best_block, addresses, coins, best_block_height, best_block_hash>>

Next ==
    \/ \E addrs \in AddressSets : New(addrs)
    \/ \E p \in DOMAIN blocks : \E body \in Bodies(blocks[p].number + 1) : AddBlock(p, body)
    \/ \E b \in DOMAIN blocks : SetBest(b)
    \/ \E p \in DOMAIN blocks : \E body \in Bodies(blocks[p].number + 1) : AddBlockAsBest(p, body)
    \/ Sync({})

\* The wallet against a MockNode, whose entire_block delivers every known block
Spec == Init /\ [][Next]_vars

\* The ledger whose canonical chain only ever grows: blocks are built on the best
\* block or on its descendants, and the best block only moves to a descendant of
\* the previous best block. The endpoint may fail to deliver a block.
NextGrow ==
    \/ \E addrs \in AddressSets : New(addrs)
    \/ \E p \in {d \in DOMAIN blocks : IsAncestorOrSelf(blocks, best_block, d)} :
          \E body \in Bodies(blocks[p].number + 1) : AddBlock(p, body)
    \/ \E b \in {d \in DOMAIN blocks : IsAncestorOrSelf(blocks, best_block, d)} : SetBest(b)
    \/ \E body \in Bodies(blocks[best_block].number + 1) : AddBlockAsBest(best_block, body)
    \/ \E lost \in LostChoices(blocks, best_block) : Sync(lost)

SpecGrow == Init /\ [][NextGrow]_vars

RECURSIVE Fixture(_)
\* the node of a test fixture: MockNode::new() followed by one add_block_as_best
\* per body of `chain`, each on the previous best block
Fixture(chain) ==
    IF chain = <<>>
    THEN [blocks |-> [i \in {block_id(genesis)} |-> genesis], best |-> block_id(genesis)]
    ELSE LET n    == Fixture(SubSeq(chain, 1, Len(chain) - 1))
             body == chain[Len(chain)]
         IN  [blocks |-> add_block(n.blocks, n.best, body),
              best   |-> block_id(new_block(n.blocks, n.best, body))]

RECURSIVE FixtureChains(_)
\* the chains of at most n blocks, the block at height h having a body of Bodies(h)
FixtureChains(n) ==
    IF n = 0 THEN {<<>>}
    ELSE LET shorter == FixtureChains(n - 1)
         IN  shorter \cup UNION { {Append(c, body) : body \in Bodies(n)} :
                                     c \in {d \in shorter : Len(d) = n - 1} }

\* The state the repository's transaction tests start from: a node holding a
\* chain and a wallet newly constructed, synced on the chain once or not yet
InitTx ==
    \E addrs \in AddressSets : \E chain \in FixtureChains(MaxBlocks) : \E synced \in BOOLEAN :
        LET n == Fixture(chain)
            w == new(addrs)
            s == sync(n.blocks, n.best, {}, w.addresses, w.coins,
                      w.best_block_height, w.best_block_hash)
        IN  /\ blocks = n.blocks
            /\ best_block = n.best
            /\ addresses = w.addresses
            /\ coins = IF synced THEN s.coins ELSE w.coins
            /\ best_block_height = IF synced THEN s.h ELSE w.best_block_height
            /\ best_block_hash = IF synced THEN s.hash ELSE w.best_block_hash
            /\ last = [op |-> "fixture"]

\* a test makes one request to the wallet of its fixture
NextTx ==
    \/ /\ last.op = "fixture"
       /\ \E id \in CoinIdChoices : CoinDetails(id)
    \/ /\ last.op = "fixture"
       /\ \E ids \in InputIdLists(coins) : \E outs \in OutputLists :
             CreateManualTransaction(ids, outs)
    \/ /\ last.op = "fixture"
       /\ \E order \in Orders(coins) : \E first \in FirstAddresses(addresses) :
             \E checks \in BOOLEAN : \E r \in Recipients : \E a \in Amounts : \E t \in Tips :
                CreateAutomaticTransaction(order, first, checks, r, a, t)
    \/ /\ last.op = "fixture"
       /\ BestHeight
    \/ /\ last.op = "fixture"
       /\ BestHash
    \/ /\ last.op = "fixture"
       /\ \E a \in Address : \E checks \in BOOLEAN : TotalAssetsOf(a, checks)
    \/ /\ last.op = "fixture"
       /\ \E checks \in BOOLEAN : NetWorth(checks)
    \/ /\ last.op = "fixture"
       /\ \E a \in Address : AllCoinsOf(a)
    \/ /\ last.op = "fixture"
       /\ \E lost \in LostChoices(blocks, best_block) : Sync(lost)

\* The wallet's operations, each applied to the wallet of a fixture
SpecTx == InitTx /\ [][NextTx]_vars

RECURSIVE BranchChains(_, _)
\* the chains of at most n blocks built above height k, the block at height h
\* having a body of Bodies(h)
BranchChains(k, n) ==
    IF n = 0 THEN {<<>>}
    ELSE LET shorter == BranchChains(k, n - 1)
         IN  shorter \cup UNION { {Append(c, body) : body \in Bodies(k + n)} :
                                     c \in {d \in shorter : Len(d) = n - 1} }

RECURSIVE Branch(_, _, _)
\* the node n after one add_block_as_best per body of `chain`, the first on the
\* block parent_id, each other one on the block added before it
Branch(n, parent_id, chain) ==
    IF chain = <<>> THEN n
    ELSE Branch([blocks |-> add_block(n.blocks, parent_id, Head(chain)),
                 best   |-> block_id(new_block(n.blocks, parent_id, Head(chain)))],
                block_id(new_block(n.blocks, parent_id, Head(chain))),
                Tail(chain))

\* The state the repository's reorg tests bring about: a node holding a chain,
\* a wallet newly constructed and synced on it, and then a second branch added
\* to the node as best, block by block, above height k of the first chain (both
\* chains of height MaxBranch at most)
InitReorg ==
    \E addrs \in AddressSets : \E old \in FixtureChains(MaxBranch) :
        \E k \in 0..Len(old) : \E new_chain \in BranchChains(k, MaxBranch - k) :
            LET a == Fixture(old)
                w == new(addrs)
                s == sync(a.blocks, a.best, {}, w.addresses, w.coins,
                          w.best_block_height, w.best_block_hash)
                n == Branch(a, unwrap_or_genesis(best_block_at_height(a.blocks, a.best, k)),
                            new_chain)
            IN  /\ blocks = n.blocks
                /\ best_block = n.best
                /\ addresses = w.addresses
                /\ coins = s.coins
                /\ best_block_height = s.h
                /\ best_block_hash = s.hash
                /\ last = [op |-> "reorg"]

\* the test syncs the wallet once more
NextReorg ==
    /\ last.op = "reorg"
    /\ \E lost \in LostChoices(blocks, best_block) : Sync(lost)

\* One sync of a synced wallet after the node has moved to another branch
SpecReorg == InitReorg /\ [][NextReorg]_vars

\* Wallet::sync query by query, against an endpoint whose best block may move
\* between two queries of the call. While the call runs, `last` is its frame:
\*   pc        where the call stands: "rollback" (the loop test of lib.rs 189),
\*             "step" (the query of lib.rs 198), "clear" (lib.rs 204),
\*             "forward" (lib.rs 215), "fetch" (lib.rs 216)
\*   block_id  the id the forward loop is about to fetch
\*   reported  the <<height, id>> answers of best_block_at_height so far
\*   pre       the cursor and store the call started with
\*   changed   whether the best block has moved during the call

\* the answer of a query at height h, as a set of reports
Report(h, r) == IF r = None THEN {} ELSE {<<h, r[1]>>}

\* the bodies of the blocks of these fixtures
ConcBodies == {<<>>, <<Mint>>}

\* A wallet synced on one chain, a node that has moved to a second branch, and
\* a sync call that is about to make its first query
InitConc ==
    \E addrs \in AddressSets : \E old \in SeqsOf(ConcBodies, MaxBranch) :
        \E k \in 0..Len(old) : \E new_chain \in SeqsOf(ConcBodies, MaxBranch - k) :
            LET a == Fixture(old)
                w == new(addrs)
                s == sync(a.blocks, a.best, {}, w.addresses, w.coins,
                          w.best_block_height, w.best_block_hash)
                n == Branch(a, unwrap_or_genesis(best_block_at_height(a.blocks, a.best, k)),
                            new_chain)
            IN  /\ blocks = n.blocks
                /\ best_block = n.best
                /\ addresses = w.addresses
                /\ coins = s.coins
                /\ best_block_height = s.h
                /\ best_block_hash = s.hash
                /\ last = [op |-> "syncing", pc |-> "rollback", block_id |-> None,
                           reported |-> {}, changed |-> FALSE,
                           pre |-> [coins |-> s.coins, h |-> s.h, hash |-> s.hash]]

\* the loop test of the rollback loop and the two breaks (lib.rs 189-195), up to
\* the decrement of the height (lib.rs 197)
SyncRollbackQuery ==
    /\ last.op = "syncing" /\ last.pc = "rollback"
    /\ LET r == best_block_at_height(blocks, best_block, best_block_height)
       IN  /\ IF r = None \/ r = Some(best_block_hash) \/ best_block_height = 0
              THEN /\ best_block_height' = best_block_height
                   /\ last' = [last EXCEPT !.pc = "clear",
                                           !.reported = @ \cup Report(best_block_height, r)]
              ELSE /\ best_block_height' = best_block_height - 1
                   /\ last' = [last EXCEPT !.pc = "step",
                                           !.reported = @ \cup Report(best_block_height, r)]
    /\ UNCHANGED <<blocks, best_block, addresses, coins, best_block_hash>>

\* the query of the step back (lib.rs 198-200)
SyncRollbackStep ==
    /\ last.op = "syncing" /\ last.pc = "step"
    /\ LET r == best_block_at_height(blocks, best_block, best_block_height)
       IN  /\ best_block_hash' = unwrap_or_genesis(r)
           /\ last' = [last EXCEPT !.pc = "rollback",
                                   !.reported = @ \cup Report(best_block_height, r)]
    /\ UNCHANGED <<blocks, best_block, addresses, coins, best_block_height>>

\* the clearing block (lib.rs 204-212)
SyncClearQuery ==
    /\ last.op = "syncing" /\ last.pc = "clear"
    /\ LET r == best_block_at_height(blocks, best_block, best_block_height)
       IN  /\ IF best_block_hash # unwrap_or_genesis(r)
              THEN /\ coins' = {}
                   /\ best_block_height' = 0
                   /\ best_block_hash' = block_id(genesis)
              ELSE UNCHANGED <<coins, best_block_height, best_block_hash>>
           /\ last' = [last EXCEPT !.pc = "forward",
                                   !.reported = @ \cup Report(best_block_height, r)]
    /\ UNCHANGED <<blocks, best_block, addresses>>

\* the loop test of the forward loop (lib.rs 215)
SyncForwardQuery ==
    /\ last.op = "syncing" /\ last.pc = "forward"
    /\ LET r == best_block_at_height(blocks, best_block, best_block_height + 1)
       IN  last' = IF r = None
                   THEN [op |-> "synced", reported |-> last.reported,
                         changed |-> last.changed, pre |-> last.pre]
                   ELSE [last EXCEPT !.pc = "fetch", !.block_id = r,
                                     !.reported = @ \cup Report(best_block_height + 1, r)]
    /\ UNCHANGED <<blocks, best_block, addresses, coins, best_block_height, best_block_hash>>

\* the fetch of the forward loop and the application of the block (lib.rs 216-237)
SyncForwardFetch ==
    /\ last.op = "syncing" /\ last.pc = "fetch"
    /\ LET e == fetch_block(blocks, {}, last.block_id[1])
       IN  IF e = None
           THEN /\ last' = [op |-> "synced", reported |-> last.reported,
                            changed |-> last.changed, pre |-> last.pre]
                /\ UNCHANGED <<coins, best_block_height, best_block_hash>>
           ELSE /\ coins' = ApplyBody(coins, addresses, e[1].body, e[1].number)
                /\ best_block_height' = e[1].number
                /\ best_block_hash' = last.block_id[1]
                /\ last' = [last EXCEPT !.pc = "forward", !.block_id = None]
    /\ UNCHANGED <<blocks, best_block, addresses>>

\* MockNode::set_best between two queries of the call, any number of times
LedgerChange(new_best) ==
    /\ last.op = "syncing"
    /\ new_best # best_block
    /\ best_block' = new_best
    /\ last' = [last EXCEPT !.changed = TRUE]
    /\ UNCHANGED <<blocks, addresses, coins, best_block_height, best_block_hash>>

NextConc ==
    \/ SyncRollbackQuery
    \/ SyncRollbackStep
    \/ SyncClearQuery
    \/ SyncForwardQuery
    \/ SyncForwardFetch
    \/ \E b \in DOMAIN blocks : LedgerChange(b)

\* One sync of a synced wallet, query by query, while the node's best block moves
SpecConc == InitConc /\ [][NextConc]_vars

----------------------------------------------------------------------------
\* Reference notions the properties are stated with

\* the canonical chain of the node from height 1 to height h, as blocks
CanonicalChain(h) ==
    [k \in 1..h |-> blocks[best_block_at_height(blocks, best_block, k)[1]]]

RECURSIVE ChainTo(_)
\* the blocks from height 1 up to the known block `id`, following parents
ChainTo(id) ==
    IF blocks[id].number = 0 THEN <<>> ELSE Append(ChainTo(blocks[id].parent), blocks[id])

\* the block `id` lies on the node's current canonical chain
IsCanonical(id) ==
    best_block_at_height(blocks, best_block, blocks[id].number) = Some(id)

\* the output occurrences of a chain: block k, transaction t, output i (1-based)
Outputs(chain) ==
    UNION { UNION { {<<k, t, i>> : i \in 1..Len(chain[k].body[t].outputs)} :
                    t \in 1..Len(chain[k].body) } :
            k \in DOMAIN chain }

\* the identifier of an output occurrence
OutputId(chain, o) == coin_id(chain[o[1]].body[o[2]], chain[o[1]].number, o[3] - 1)

\* the coin of an output occurrence
OutputCoin(chain, o) == chain[o[1]].body[o[2]].outputs[o[3]]

\* an input of a later transaction of the chain (a later block, or a later
\* position in the same block) consumes the output occurrence
SpentLater(chain, o) ==
    \E k \in DOMAIN chain : \E t \in 1..Len(chain[k].body) :
        /\ k > o[1] \/ (k = o[1] /\ t > o[2])
        /\ \E n \in 1..Len(chain[k].body[t].inputs) :
              chain[k].body[t].inputs[n].coin_id = OutputId(chain, o)

\* the unspent outputs of a chain that belong to tracked addresses
UnspentTracked(chain, addrs) ==
    {<<OutputId(chain, o), OutputCoin(chain, o)>> :
        o \in {x \in Outputs(chain) :
                 OutputCoin(chain, x).owner \in addrs /\ ~SpentLater(chain, x)}}

\* what a newly constructed wallet with the same addresses holds after one sync
\* on the node as it is now
FreshSync ==
    sync(blocks, best_block, {}, addresses, new(addresses).coins,
         new(addresses).best_block_height, new(addresses).best_block_hash)

----------------------------------------------------------------------------
\* C1: a sync that the ledger answers in full ends with the cursor on the node's
\* current best block: best_height is its number and best_hash its id, whatever
\* the wallet had synced before (also when the new chain is shorter).
C1_SyncReachesBest ==
    (last.op = "sync" /\ last.lost = {}) =>
        /\ best_height(best_block_height) = blocks[best_block].number
        /\ best_hash(best_block_hash) = best_block

\* C1 witness: a full sync after a reorganisation to a shorter chain that is not
\* a prefix of the chain synced before
C1_Witness ==
    /\ last.op = "sync" /\ last.lost = {}
    /\ last.pre.h > best_block_height
    /\ best_block_height >= 1
    /\ ~IsAncestorOrSelf(blocks, best_block, last.pre.hash)
    /\ best_block_hash = best_block

\* C2: while the canonical chain only grows, after every sync the coin set is
\* exactly the tracked outputs of the canonical chain up to the cursor that no
\* later transaction of that chain consumes.
C2_StoreIsUnspentTracked ==
    last.op = "sync" =>
        /\ IsCanonical(best_block_hash)
        /\ best_block_height = blocks[best_block_hash].number
        /\ coins = UnspentTracked(CanonicalChain(best_block_height), addresses)

\* C2 witness: a synced chain on which a tracked coin was spent in a later block,
\* another tracked coin is unspent, and an untracked coin was created
C2_Witness ==
    /\ last.op = "sync"
    /\ best_block_height >= 2
    /\ coins # {}
    /\ \E o \in Outputs(CanonicalChain(best_block_height)) :
          /\ OutputCoin(CanonicalChain(best_block_height), o).owner \in addresses
          /\ SpentLater(CanonicalChain(best_block_height), o)
    /\ \E o \in Outputs(CanonicalChain(best_block_height)) :
          OutputCoin(CanonicalChain(best_block_height), o).owner \notin addresses

\* C3 (as claimed): after the wallet has synced a chain A and the ledger has
\* reorganised to a chain B that leaves A below A's tip, one full sync leaves the
\* coin set and every balance equal to those of a fresh wallet synced on B.
C3_RollbackCorrectness ==
    ( /\ last.op = "sync" /\ last.lost = {}
      /\ last.pre.h = blocks[last.pre.hash].number
      /\ last.pre.coins = UnspentTracked(ChainTo(last.pre.hash), addresses)
      /\ ~IsAncestorOrSelf(blocks, last.pre.hash, best_block) )
    =>  /\ coins = FreshSync.coins
        /\ \A a \in Address : \A checks \in BOOLEAN :
              total_assets_of(addresses, coins, a, checks) =
                  total_assets_of(addresses, FreshSync.coins, a, checks)
        /\ \A checks \in BOOLEAN :
              net_worth(coins, checks) = net_worth(FreshSync.coins, checks)

\* C4: a second sync, with the ledger unchanged since the first, changes neither
\* the cursor nor the coin set.
C4_SyncIdempotent ==
    last.op = "sync" =>
        LET s == sync(blocks, best_block, last.lost, addresses, coins,
                      best_block_height, best_block_hash)
        IN  /\ s.coins = coins
            /\ s.h = best_block_height
            /\ s.hash = best_block_hash

\* C4 witness: a sync that applied blocks after a reorganisation and left coins
C4_Witness ==
    /\ last.op = "sync"
    /\ last.applied # <<>>
    /\ last.pre.h >= 1
    /\ ~IsAncestorOrSelf(blocks, last.pre.hash, best_block)
    /\ coins # {}

\* the block the sync applied last, as a chain of one block
TipBlock == <<blocks[best_block_hash]>>

\* a later output occurrence of the same block creates the same coin id again
\* and is not consumed after that
RecreatedLater(chain, o) ==
    \E x \in Outputs(chain) :
        /\ x[1] = o[1] /\ x[2] > o[2]
        /\ OutputId(chain, x) = OutputId(chain, o)
        /\ ~SpentLater(chain, x)

\* C5: the transactions of a block are applied in listed order: a tracked coin
\* created by a transaction of the block and consumed by a later transaction of
\* the same block is absent after the sync, and a tracked output that no later
\* transaction of the block consumes (the spender's output, or a coin whose
\* spender comes before its creator) is present.
C5_SameBlockDependency ==
    (last.op = "sync" /\ last.applied # <<>>) =>
        \A o \in Outputs(TipBlock) :
            OutputCoin(TipBlock, o).owner \in addresses =>
                /\ (SpentLater(TipBlock, o) /\ ~RecreatedLater(TipBlock, o))
                        => \A p \in coins : p[1] # OutputId(TipBlock, o)
                /\ ~SpentLater(TipBlock, o)
                        => <<OutputId(TipBlock, o), OutputCoin(TipBlock, o)>> \in coins

\* C5 witness: the block applied last creates a tracked coin and spends it in a
\* later transaction whose own tracked output is in the store
C5_Witness ==
    /\ last.op = "sync" /\ last.applied # <<>>
    /\ \E o \in Outputs(TipBlock) :
          /\ OutputCoin(TipBlock, o).owner \in addresses
          /\ SpentLater(TipBlock, o)
          /\ \A p \in coins : p[1] # OutputId(TipBlock, o)
          /\ \E x \in Outputs(TipBlock) :
                /\ x[2] > o[2]
                /\ \E n \in 1..Len(TipBlock[1].body[x[2]].inputs) :
                      TipBlock[1].body[x[2]].inputs[n].coin_id = OutputId(TipBlock, o)
                /\ <<OutputId(TipBlock, x), OutputCoin(TipBlock, x)>> \in coins

\* C6: every coin of the store is owned by a tracked address, so net_worth sums
\* tracked coins only.
C6_OnlyTrackedOwners ==
    /\ \A p \in coins : p[2].owner \in addresses
    /\ \A checks \in BOOLEAN :
          net_worth(coins, checks) = net_worth({p \in coins : p[2].owner \in addresses}, checks)

\* C6 witness: after a reorganisation the wallet has synced a chain that pays an
\* untracked owner and holds coins
C6_Witness ==
    /\ last.op = "sync"
    /\ coins # {}
    /\ ~IsAncestorOrSelf(blocks, last.pre.hash, best_block)
    /\ \E o \in Outputs(CanonicalChain(best_block_height)) :
          OutputCoin(CanonicalChain(best_block_height), o).owner \notin addresses

\* C7: when the wallet's cursor is on the canonical chain at height h and the
\* chain only grew to height h + m, one sync issues at most m + 3
\* best_block_at_height calls and m entire_block calls, whatever h; exactly
\* that many when every block is delivered.
C7_NoRescan ==
    (last.op = "sync" /\ IsCanonical(last.pre.hash)) =>
        LET m == blocks[best_block].number - last.pre.h
        IN  /\ last.bbah <= m + 3
            /\ last.eb <= m
            /\ last.lost = {} => (last.bbah = m + 3 /\ last.eb = m)

\* C7 witness: a full sync that started above genesis and applied new blocks
C7_Witness ==
    /\ last.op = "sync" /\ last.lost = {}
    /\ last.pre.h >= 1
    /\ best_block_height > last.pre.h
    /\ last.eb = best_block_height - last.pre.h

\* the height of the block the endpoint could not deliver in the last sync
LostHeight == blocks[CHOOSE i \in last.lost : TRUE].number

\* C8: on a chain that only grew, when the fetch of the canonical block at height
\* j fails during the forward phase, the sync ends with the cursor on the
\* canonical block at height j - 1 and the store equal to the replay of the
\* canonical chain through height j - 1; nothing of block j is applied.
C8_FetchFailureKeepsProgress ==
    (last.op = "sync" /\ last.lost # {} /\ LostHeight > last.pre.h) =>
        /\ best_block_height = LostHeight - 1
        /\ Some(best_block_hash) = best_block_at_height(blocks, best_block, LostHeight - 1)
        /\ coins = UnspentTracked(CanonicalChain(LostHeight - 1), addresses)
        /\ Len(last.applied) = LostHeight - 1 - last.pre.h
        /\ \A n \in 1..Len(last.applied) :
              Some(last.applied[n]) =
                  best_block_at_height(blocks, best_block, last.pre.h + n)

\* C8 witness: a sync that applied a block with coins and then met the failure
C8_Witness ==
    /\ last.op = "sync" /\ last.lost # {}
    /\ LostHeight > last.pre.h + 1
    /\ best_block_height = LostHeight - 1
    /\ coins # last.pre.coins

\* C9: a newly constructed wallet is at height 0 on the genesis block, holds no
\* coin, is worth 0, reports Ok(0) for every tracked address, and tracks exactly
\* the addresses it was given.
C9_NewWallet ==
    last.op = "new" =>
        /\ best_height(best_block_height) = 0
        /\ best_hash(best_block_hash) = block_id(genesis)
        /\ coins = {}
        /\ \A checks \in BOOLEAN :
              /\ net_worth(coins, checks) = U64(0)
              /\ \A a \in addresses : total_assets_of(addresses, coins, a, checks) = Ok(U64(0))
        /\ addresses = last.addrs

\* C9 witness: a wallet constructed while the node already has a longer chain
C9_Witness ==
    /\ last.op = "new"
    /\ addresses # {}
    /\ blocks[best_block].number >= 2

\* C10: total_assets_of and all_coins_of fail with ForeignAddress exactly for
\* the addresses the wallet does not track, in either build; a wallet without
\* addresses answers ForeignAddress for every address.
C10_ForeignAddress ==
    \A a \in Address :
        /\ \A checks \in BOOLEAN :
              (total_assets_of(addresses, coins, a, checks) = Err("ForeignAddress"))
                  <=> (a \notin addresses)
        /\ (all_coins_of(addresses, coins, a) = Err("ForeignAddress")) <=> (a \notin addresses)
        /\ (a \in addresses) => all_coins_of(addresses, coins, a).ok

\* C10 witness: a wallet without addresses that has synced a chain paying Alice
C10_Witness ==
    /\ addresses = {}
    /\ last.op = "sync"
    /\ best_block_height >= 1
    /\ \E o \in Outputs(CanonicalChain(best_block_height)) :
          OutputCoin(CanonicalChain(best_block_height), o).owner = "Alice"
    /\ total_assets_of(addresses, coins, "Alice", TRUE) = Err("ForeignAddress")

----------------------------------------------------------------------------
\* Claims about the wallet's read-only operations

\* C11: coin_details(id) returns Ok(coin) exactly when the store holds coin
\* under id and Err(UnknownCoin) otherwise; after a new wallet has synced a
\* chain it answers UnknownCoin for a tracked coin the chain creates and later
\* spends, and for a coin of the chain whose owner is not tracked.
C11_CoinDetails ==
    last.op = "coin_details" =>
        /\ last.res.ok <=> (\E p \in coins : p[1] = last.id)
        /\ last.res.ok => <<last.id, last.res.val>> \in coins
        /\ ~last.res.ok => last.res = Err("UnknownCoin")
        /\ \A o \in Outputs(CanonicalChain(best_block_height)) :
              ( /\ OutputId(CanonicalChain(best_block_height), o) = last.id
                /\ \/ OutputCoin(CanonicalChain(best_block_height), o).owner \notin addresses
                   \/ SpentLater(CanonicalChain(best_block_height), o) )
              => last.res = Err("UnknownCoin")

\* C11 witness: the wallet holds a coin and is asked for a tracked coin that its
\* chain created and later spent
C11_Witness ==
    /\ last.op = "coin_details"
    /\ coins # {}
    /\ last.res = Err("UnknownCoin")
    /\ \E o \in Outputs(CanonicalChain(best_block_height)) :
          /\ OutputId(CanonicalChain(best_block_height), o) = last.id
          /\ OutputCoin(CanonicalChain(best_block_height), o).owner \in addresses
          /\ SpentLater(CanonicalChain(best_block_height), o)

\* the coins of the store that address a owns
OwnedBy(a) == {p \in coins : p[2].owner = a}

RECURSIVE ValueTotal(_)
\* the total value of the coins of S, as a number (no width)
ValueTotal(S) ==
    IF S = {} THEN U64(0)
    ELSE LET p == CHOOSE x \in S : TRUE IN Plus(p[2].value, ValueTotal(S \ {p}))

RECURSIVE AssetsOfAll(_, _)
\* the sum, as a number, of the answers of total_assets_of over a set of
\* tracked addresses
AssetsOfAll(as, checks) ==
    IF as = {} THEN U64(0)
    ELSE LET a == CHOOSE x \in as : TRUE
         IN  Plus(total_assets_of(addresses, coins, a, checks).val, AssetsOfAll(as \ {a}, checks))

\* C12 (as claimed): in every reachable state, in either build and for every
\* tracked address a, total_assets_of(a) is the sum of the values of the store's
\* coins owned by a, all_coins_of(a) is exactly the set of (id, value) of those
\* coins, and net_worth() is the sum of total_assets_of over the tracked addresses.
C12_QueriesAgree ==
    \A checks \in BOOLEAN :
        /\ \A a \in addresses :
              /\ total_assets_of(addresses, coins, a, checks) = Ok(ValueTotal(OwnedBy(a)))
              /\ all_coins_of(addresses, coins, a).ok
              /\ \A x \in all_coins_of(addresses, coins, a).val :
                    \E p \in OwnedBy(a) : p[1] = x[1] /\ p[2].value = x[2]
              /\ \A p \in OwnedBy(a) :
                    <<p[1], p[2].value>> \in all_coins_of(addresses, coins, a).val
        /\ net_worth(coins, checks) = AssetsOfAll(addresses, checks)

----------------------------------------------------------------------------
\* Claims about create_manual_transaction

\* some id of the request is absent from the store
SomeIdAbsent == \E i \in 1..Len(last.ids) : \A p \in coins : p[1] # last.ids[i]

\* some output coin of the request has value 0
SomeOutputZero == \E i \in 1..Len(last.outs) : last.outs[i].value = U64(0)

\* C13: create_manual_transaction with an empty input id list returns
\* Err(ZeroInputs) in every wallet state and for every output list, also one
\* that holds a zero-value coin.
C13_ZeroInputs ==
    (last.op = "manual" /\ last.ids = <<>>) => last.res = Err("ZeroInputs")

\* C13 witness: no input, a zero-value output, a wallet that holds coins
C13_Witness ==
    /\ last.op = "manual" /\ last.ids = <<>>
    /\ SomeOutputZero
    /\ coins # {}
    /\ last.res = Err("ZeroInputs")

\* C14 (as claimed): create_manual_transaction with a non-empty input id list of
\* which some id is absent from the store returns Err(UnknownCoin), whatever the
\* values of the output coins.
C14_UnknownCoin ==
    (last.op = "manual" /\ last.ids # <<>> /\ SomeIdAbsent) =>
        last.res = Err("UnknownCoin")

\* C14 (amended): with a non-empty input id list of which some id is absent from
\* the store, create_manual_transaction returns Err(ZeroCoinValue) when some
\* output coin has value 0 and Err(UnknownCoin) when none has.
C14_UnknownCoinAfterZeroValue ==
    (last.op = "manual" /\ last.ids # <<>> /\ SomeIdAbsent) =>
        last.res = IF SomeOutputZero THEN Err("ZeroCoinValue") ELSE Err("UnknownCoin")

\* C14 witness: a known id followed by an absent one, outputs without a zero value
C14_Witness ==
    /\ last.op = "manual"
    /\ Len(last.ids) = 2
    /\ \E p \in coins : p[1] = last.ids[1]
    /\ \A p \in coins : p[1] # last.ids[2]
    /\ last.outs # <<>> /\ ~SomeOutputZero
    /\ last.res = Err("UnknownCoin")

\* C15: with a non-empty input id list whose ids are all in the store,
\* create_manual_transaction returns Err(ZeroCoinValue) exactly when some output
\* coin has value 0.
C15_ZeroCoinValue ==
    (last.op = "manual" /\ last.ids # <<>> /\ ~SomeIdAbsent) =>
        (last.res = Err("ZeroCoinValue") <=> SomeOutputZero)

\* C15 witness: known inputs, and a zero-value coin that is not the first output
C15_Witness ==
    /\ last.op = "manual" /\ last.ids # <<>> /\ ~SomeIdAbsent
    /\ Len(last.outs) = 2
    /\ last.outs[1].value # U64(0) /\ last.outs[2].value = U64(0)
    /\ last.res = Err("ZeroCoinValue")

\* C16: when create_manual_transaction returns Ok(tx), tx.inputs holds one Input
\* per given coin id, in the given order and with that id, and tx.outputs is the
\* given output list; it returns Ok whenever the input list is non-empty, every
\* id is in the store and no output has value 0.
C16_ManualTransaction ==
    last.op = "manual" =>
        /\ last.res.ok =>
              /\ Len(last.res.val.inputs) = Len(last.ids)
              /\ \A i \in 1..Len(last.ids) : last.res.val.inputs[i].coin_id = last.ids[i]
              /\ last.res.val.outputs = last.outs
        /\ (last.ids # <<>> /\ ~SomeIdAbsent /\ ~SomeOutputZero) => last.res.ok

\* C16 witness: a transaction built from two different coins and two outputs
C16_Witness ==
    /\ last.op = "manual"
    /\ last.res.ok
    /\ Len(last.ids) = 2 /\ last.ids[1] # last.ids[2]
    /\ Len(last.outs) = 2

----------------------------------------------------------------------------
\* Claims about create_automatic_transaction

\* the operation returned Ok (it neither failed nor panicked)
IsOk(r) == "ok" \in DOMAIN r /\ r.ok

\* the total value of all coins of the store
StoreTotal == ValueTotal(coins)

\* C17: create_automatic_transaction(recipient, 0, tip) returns
\* Err(ZeroCoinValue) in every wallet state, for every tip and recipient, also
\* when the wallet holds no coin.
C17_ZeroPayment ==
    (last.op = "auto" /\ last.amount = U64(0)) => last.res = Err("ZeroCoinValue")

\* C17 witness: a zero payment with a tip asked of a wallet without coins
C17_Witness ==
    /\ last.op = "auto" /\ last.amount = U64(0) /\ Less(U64(0), last.tip)
    /\ coins = {}
    /\ last.res = Err("ZeroCoinValue")

\* C18 (as claimed): for a payment above 0 with payment + tip in the integer
\* range, create_automatic_transaction returns Err(InsufficientFunds) exactly
\* when the total value of the store is below payment + tip, and Ok otherwise.
C18_InsufficientFunds ==
    ( /\ last.op = "auto"
      /\ Less(U64(0), last.amount)
      /\ Leq(Plus(last.amount, last.tip), MaxU64) ) =>
        IF Less(StoreTotal, Plus(last.amount, last.tip))
        THEN last.res = Err("InsufficientFunds")
        ELSE IsOk(last.res)

\* the value of the store coin that an input id names
InputValue(id) == (CHOOSE p \in coins : p[1] = id)[2].value

RECURSIVE SumInputs(_)
\* the total store value of a sequence of inputs
SumInputs(ins) ==
    IF ins = <<>> THEN U64(0)
    ELSE Plus(InputValue(Head(ins).coin_id), SumInputs(Tail(ins)))

RECURSIVE SumOutputs(_)
\* the total value of a sequence of output coins
SumOutputs(outs) ==
    IF outs = <<>> THEN U64(0) ELSE Plus(Head(outs).value, SumOutputs(Tail(outs)))

\* C19 (as claimed): when create_automatic_transaction returns Ok(tx), the
\* inputs are pairwise distinct coin ids of the store, the first output is
\* Coin{payment_amount, recipient}, and the store value of the inputs minus the
\* value of the outputs is exactly the tip.
C19_TipIsDifference ==
    (last.op = "auto" /\ IsOk(last.res)) =>
        LET tx == last.res.val
        IN  /\ \A i, j \in 1..Len(tx.inputs) :
                  i # j => tx.inputs[i].coin_id # tx.inputs[j].coin_id
            /\ \A i \in 1..Len(tx.inputs) : \E p \in coins : p[1] = tx.inputs[i].coin_id
            /\ tx.outputs[1] = Coin(last.amount, last.recipient)
            /\ Minus(SumInputs(tx.inputs), SumOutputs(tx.outputs)) = last.tip

\* C20 (as claimed): when create_automatic_transaction returns Ok(tx), tx has a
\* second, change output exactly when the selected input total exceeds
\* payment_amount + tip; its value is that surplus and its owner a tracked
\* address; with a surplus of 0 tx has exactly one output; no output has value 0.
C20_ChangeOutput ==
    (last.op = "auto" /\ IsOk(last.res)) =>
        LET tx      == last.res.val
            surplus == Minus(SumInputs(tx.inputs), Plus(last.amount, last.tip))
        IN  /\ Len(tx.outputs) \in {1, 2}
            /\ Len(tx.outputs) = 2 <=> Less(U64(0), surplus)
            /\ Len(tx.outputs) = 2 =>
                  /\ tx.outputs[2].value = surplus
                  /\ tx.outputs[2].owner \in addresses
            /\ surplus = U64(0) => Len(tx.outputs) = 1
            /\ \A i \in 1..Len(tx.outputs) : tx.outputs[i].value # U64(0)

----------------------------------------------------------------------------
\* Claims about the validity of the transactions the wallet creates

\* the owner of the store coin that an input id names
InputOwner(id) == (CHOOSE p \in coins : p[1] = id)[2].owner

\* C21 (as claimed): every input of a transaction returned by
\* create_manual_transaction or create_automatic_transaction carries
\* Signature::Valid(a), a being the owner of the store coin the input spends.
C21_OwnerSignatures ==
    (last.op \in {"manual", "auto"} /\ IsOk(last.res)) =>
        \A i \in 1..Len(last.res.val.inputs) :
            LET input == last.res.val.inputs[i]
            IN  /\ \E p \in coins : p[1] = input.coin_id
                /\ input.signature = SigValid(InputOwner(input.coin_id))

RECURSIVE SumIds(_)
\* the total store value of the coins a sequence of known coin ids names, an id
\* given twice counting twice
SumIds(ids) ==
    IF ids = <<>> THEN U64(0) ELSE Plus(InputValue(Head(ids)), SumIds(Tail(ids)))

\* C22 (as claimed): every transaction create_manual_transaction returns Ok
\* consumes at least as many bones as it creates, and a request of known coins
\* whose outputs are worth more than its inputs is rejected with
\* InsufficientFunds.
C22_ManualConsumesEnough ==
    /\ (last.op = "manual" /\ IsOk(last.res)) =>
          Leq(SumOutputs(last.res.val.outputs), SumInputs(last.res.val.inputs))
    /\ ( /\ last.op = "manual"
         /\ last.ids # <<>>
         /\ ~SomeOutputZero
         /\ ~SomeIdAbsent
         /\ Less(SumIds(last.ids), SumOutputs(last.outs)) ) =>
          last.res = Err("InsufficientFunds")

\* C24 (as claimed): for every payment_amount and tip of 64 bits, also when
\* their sum exceeds the largest u64, create_automatic_transaction returns Ok
\* or a typed WalletError and never aborts; when it returns Ok the inputs are
\* non-empty and worth at least payment_amount + tip, the sum taken without
\* wrap-around.
C24_NoAbortNoWrap ==
    last.op = "auto" =>
        /\ "panic" \notin DOMAIN last.res
        /\ IsOk(last.res) =>
              /\ last.res.val.inputs # <<>>
              /\ Leq(Plus(last.amount, last.tip), SumInputs(last.res.val.inputs))

----------------------------------------------------------------------------
\* Claims about what the operations leave unchanged

\* the operations that take the wallet by shared reference
ReadOnlyOps ==
    {"manual", "auto", "best_height", "best_hash", "total_assets_of", "net_worth",
     "all_coins_of", "coin_details"}

\* C23: create_manual_transaction, create_automatic_transaction and the queries
\* (best_height, best_hash, total_assets_of, net_worth, all_coins_of,
\* coin_details) leave the coin set, the cursor and the tracked address set as
\* they were, whether they succeed or fail; sync leaves the tracked address set
\* as it was.
C23_Frame ==
    [][ /\ last'.op \in ReadOnlyOps =>
              /\ coins' = coins
              /\ best_block_height' = best_block_height
              /\ best_block_hash' = best_block_hash
              /\ addresses' = addresses
        /\ last'.op = "sync" => addresses' = addresses ]_vars

\* C23 witness: a builder has returned a transaction that spends coins of the
\* store, and the store still holds every one of them
C23_Witness ==
    /\ last.op = "manual"
    /\ IsOk(last.res)
    /\ last.res.val.inputs # <<>>
    /\ \A i \in 1..Len(last.res.val.inputs) :
          \E p \in coins : p[1] = last.res.val.inputs[i].coin_id

----------------------------------------------------------------------------
\* Claims about sync after a reorganisation

\* the chain the wallet had synced before the sync that `last` records
OldChain == ChainTo(last.pre.hash)

\* the node's canonical chain
NewChain == CanonicalChain(blocks[best_block].number)

\* the smaller of two numbers
Min(a, b) == IF a <= b THEN a ELSE b

\* the fork point: the highest height at which the chain the wallet had synced
\* and the canonical chain hold the same block (0: they share genesis only)
ForkHeight ==
    CHOOSE k \in 0..Min(Len(OldChain), Len(NewChain)) :
        /\ \A j \in 1..k : OldChain[j] = NewChain[j]
        /\ k = Min(Len(OldChain), Len(NewChain)) \/ OldChain[k + 1] # NewChain[k + 1]

\* the block id of the fork point
ForkId == IF ForkHeight = 0 THEN block_id(genesis) ELSE block_id(NewChain[ForkHeight])

\* the node's block id at height h, if any
NodeAt(h) == best_block_at_height(blocks, best_block, h)

\* the rollback loop of the recorded sync has ended by its own exits: at height
\* 0, or at the first height where the node's block id is the cursor's
RollbackEndsAtMatch ==
    /\ last.rb.h = 0 \/ NodeAt(last.rb.h) = Some(last.rb.hash)
    /\ last.rb.h < last.pre.h =>
          /\ NodeAt(last.pre.h) # Some(last.pre.hash)
          /\ last.rb.h = last.pre.h - 1

\* the forward loop of the recorded sync has ended because the node has no
\* block at the next height or because the fetch of that block failed
ForwardEnds ==
    \/ NodeAt(best_block_height + 1) = None
    \/ NodeAt(best_block_height + 1)[1] \in last.lost

\* the recorded sync has asked the node for a block id a bounded number of times:
\* at most twice per height of the rollback, once for the clearing block and
\* once per height of the canonical chain and once more in the forward loop
BoundedCalls ==
    /\ last.rb.bbah <= 2 * last.pre.h + 1
    /\ last.bbah <= last.rb.bbah + 1 + blocks[best_block].number + 1
    /\ last.eb <= blocks[best_block].number

\* C25 (as claimed): every sync terminates: the rollback loop ends at height 0 or
\* at the first height where the ledger's block id matches the cursor, and the
\* forward loop ends when the ledger has no block at the next height or a fetch
\* fails.
C25_SyncTerminates ==
    last.op = "sync" => (RollbackEndsAtMatch /\ ForwardEnds /\ BoundedCalls)

\* C25 (amended): every sync terminates: the rollback loop ends at height 0, at
\* the first height where the ledger's block id matches the cursor, or at once
\* when the ledger has no block at the wallet's height; the forward loop ends
\* when the ledger has no block at the next height or a fetch fails.
C25_SyncTerminatesAlsoOnNone ==
    last.op = "sync" =>
        /\ IF NodeAt(last.pre.h) = None
           THEN last.rb.h = last.pre.h /\ last.rb.hash = last.pre.hash
           ELSE RollbackEndsAtMatch
        /\ ForwardEnds
        /\ BoundedCalls

\* C25 witness: a sync whose rollback loop has stepped back and whose forward
\* loop has ended on a failed fetch
C25_Witness ==
    /\ last.op = "sync"
    /\ last.rb.h < last.pre.h
    /\ NodeAt(best_block_height + 1) # None
    /\ NodeAt(best_block_height + 1)[1] \in last.lost

\* C26 (as claimed): the rollback moves the cursor from a block to that block's
\* parent only, and where it ends the cursor is the fork point.
C26_RollbackToForkPoint ==
    last.op = "sync" =>
        /\ IsAncestorOrSelf(blocks, last.rb.hash, last.pre.hash)
        /\ last.rb.h = ForkHeight
        /\ last.rb.hash = ForkId

\* the recorded sync has started with a reorganisation to detect
ReorgDetected == NodeAt(last.pre.h) # Some(last.pre.hash)

\* C27 (as claimed): when at the start of a sync the ledger's block at the
\* wallet's height is not the wallet's best hash, or the ledger has no block at
\* that height, the coin set is cleared and the cursor reset to genesis before
\* the forward phase applies a block.
C27_ClearedOnReorg ==
    (last.op = "sync" /\ ReorgDetected) =>
        /\ last.cl.coins = {}
        /\ last.cl.h = 0
        /\ last.cl.hash = block_id(genesis)

\* the coin ids that the blocks of a chain from position lo on create
CreatedIds(chain, lo) == {OutputId(chain, o) : o \in {x \in Outputs(chain) : x[1] >= lo}}

\* a block of a chain from position lo on has an input that consumes the coin id
SpentIn(chain, lo, id) ==
    \E k \in lo..Len(chain) : \E t \in 1..Len(chain[k].body) :
        \E n \in 1..Len(chain[k].body[t].inputs) : chain[k].body[t].inputs[n].coin_id = id

\* C28 (as claimed): after a reorg and one sync, the store holds no coin that
\* only a block of the abandoned branch created.
C28_UndoInsertions ==
    (last.op = "sync" /\ last.lost = {}) =>
        \A p \in coins : p[1] \notin CreatedIds(OldChain, ForkHeight + 1) \ CreatedIds(NewChain, 1)

\* C29 (as claimed): after a reorg and one sync, a tracked coin of the common
\* part of the two chains that only a block of the abandoned branch spent, and
\* that the canonical chain does not spend, is in the store again with its
\* value and owner.
C29_UndoRemovals ==
    (last.op = "sync" /\ last.lost = {}) =>
        \A p \in UnspentTracked(SubSeq(OldChain, 1, ForkHeight), addresses) :
            ( /\ SpentIn(OldChain, ForkHeight + 1, p[1])
              /\ ~SpentIn(NewChain, ForkHeight + 1, p[1]) ) => p \in coins

\* C30 (as claimed): a sync after a reorg fetches the canonical blocks above the
\* fork point only, and applies each of them once.
C30_NoResyncFromGenesis ==
    (last.op = "sync" /\ last.lost = {}) =>
        /\ last.applied = [i \in 1..(Len(NewChain) - ForkHeight) |->
                              block_id(NewChain[ForkHeight + i])]
        /\ last.eb = Len(NewChain) - ForkHeight

----------------------------------------------------------------------------
\* Claims about sync on a shortened chain, the forward phase and resumption

\* C31: when the ledger has no block at the wallet's height, sync empties the
\* store, resets the cursor to genesis and replays the whole canonical chain:
\* cursor and store end as those of a newly constructed wallet with the same
\* addresses synced on that chain.
C31_ShorterChainRescan ==
    (last.op = "sync" /\ last.lost = {} /\ NodeAt(last.pre.h) = None) =>
        /\ last.cl = [coins |-> {}, h |-> 0, hash |-> block_id(genesis)]
        /\ last.applied = [i \in 1..Len(NewChain) |-> block_id(NewChain[i])]
        /\ coins = FreshSync.coins
        /\ best_block_height = FreshSync.h
        /\ best_block_hash = FreshSync.hash

\* C31 witness: the best block was reset to an ancestor of the wallet's block,
\* and the replay has given back a coin the abandoned blocks had spent
C31_Witness ==
    /\ last.op = "sync" /\ last.lost = {} /\ NodeAt(last.pre.h) = None
    /\ best_block # last.pre.hash
    /\ IsAncestorOrSelf(blocks, best_block, last.pre.hash)
    /\ coins # {}
    /\ \E p \in coins : p \notin last.pre.coins

\* the cursor as the forward phase of the recorded sync finds it before it
\* applies its i-th block: the cursor the clearing block left, or the block
\* applied before
CursorBefore(i) ==
    IF i = 1 THEN [h |-> last.cl.h, hash |-> last.cl.hash]
    ELSE [h |-> blocks[last.applied[i - 1]].number, hash |-> last.applied[i - 1]]

\* C32: every block the forward phase applies is a child of the block the cursor
\* points to at that moment (its parent is the cursor's block id, its number
\* the cursor's height plus 1), so the height advances by 1 per applied block.
C32_AppliesChildren ==
    last.op = "sync" =>
        /\ \A i \in 1..Len(last.applied) :
              /\ blocks[last.applied[i]].parent = CursorBefore(i).hash
              /\ blocks[last.applied[i]].number = CursorBefore(i).h + 1
        /\ best_block_height = last.cl.h + Len(last.applied)
        /\ best_block_hash = CursorBefore(Len(last.applied) + 1).hash

\* C32 witness: after a reorganisation the rollback has stepped back, and the
\* forward phase has applied two blocks or more
C32_Witness ==
    /\ last.op = "sync"
    /\ last.rb.h < last.pre.h
    /\ Len(last.applied) >= 2

\* the recorded sync has stopped early because the fetch of a block failed
\* (it has asked for one block more than it has applied)
StoppedByFetch ==
    /\ last.op = "sync"
    /\ last.eb > Len(last.applied)

\* a sync of the wallet as it is now, on the node as it is, every block fetchable
Resumed == sync(blocks, best_block, {}, addresses, coins, best_block_height, best_block_hash)

\* one sync from the state the recorded sync started in, every block fetchable
Uninterrupted ==
    sync(blocks, best_block, {}, addresses, last.pre.coins, last.pre.h, last.pre.hash)

\* C34: after a sync that a failed fetch has stopped early, on an unchanged
\* canonical chain, a later sync that can fetch every block ends in the cursor
\* and store one uninterrupted sync from the original state ends in, and
\* applies no block that was applied before the failure.
C34_ResumeAfterFailure ==
    StoppedByFetch =>
        /\ Resumed.coins = Uninterrupted.coins
        /\ Resumed.h = Uninterrupted.h
        /\ Resumed.hash = Uninterrupted.hash
        /\ \A i \in 1..Len(Resumed.applied) : \A j \in 1..Len(last.applied) :
              Resumed.applied[i] # last.applied[j]
        /\ last.applied \o Resumed.applied = Uninterrupted.applied

\* C34 witness: the fetch failed after a block that changed the store had been
\* applied, and the resumed sync has a block to apply that changes it again
C34_Witness ==
    /\ StoppedByFetch
    /\ last.applied # <<>>
    /\ coins # last.pre.coins
    /\ Resumed.applied # <<>>
    /\ Resumed.coins # coins

----------------------------------------------------------------------------
\* Claims about the mock node

\* the known blocks at height h that are the best block or an ancestor of it
AncestorsAt(h) ==
    {a \in DOMAIN blocks : blocks[a].number = h /\ IsAncestorOrSelf(blocks, a, best_block)}

\* the heights a query may name: those of the known blocks and one above
QueryHeights == 0..(Cardinality(DOMAIN blocks) + 1)

\* C36: best_block_at_height(h) is the id of the ancestor at height h of the
\* node's current best block for every h up to the best block's number (at
\* height 0, genesis), and None for every greater h; after the best block has
\* moved to another branch the answers follow that branch.
C36_BestBlockAtHeight ==
    /\ best_block_at_height(blocks, best_block, 0) = Some(block_id(genesis))
    /\ \A h \in QueryHeights :
          IF h <= blocks[best_block].number
          THEN AncestorsAt(h) = {unwrap_or_genesis(best_block_at_height(blocks, best_block, h))}
               /\ best_block_at_height(blocks, best_block, h) # None
          ELSE best_block_at_height(blocks, best_block, h) = None

\* C36 witness: the best block has moved to a branch that does not hold the
\* block the wallet had synced to, and at that block's height the node answers
\* with another block
C36_Witness ==
    /\ last.op = "node"
    /\ best_block_height >= 1
    /\ best_block_height < blocks[best_block].number
    /\ ~IsAncestorOrSelf(blocks, best_block_hash, best_block)
    /\ best_block_at_height(blocks, best_block, best_block_height) # None
    /\ best_block_at_height(blocks, best_block, best_block_height) # Some(best_block_hash)

\* the step is an add_block of the node: of a block that is new, or of one the
\* node already holds
IsAddBlock ==
    /\ last'.op = "node"
    /\ \/ \E id \in DOMAIN blocks' \ DOMAIN blocks : AddBlock(blocks'[id].parent, blocks'[id].body)
       \/ \E id \in DOMAIN blocks \ {block_id(genesis)} : AddBlock(blocks[id].parent, blocks[id].body)

\* the step is a set_best or an add_block_as_best of the node
IsBestChange ==
    \/ best_block' \in DOMAIN blocks /\ SetBest(best_block')
    \/ \E id \in DOMAIN blocks' \ DOMAIN blocks :
          AddBlockAsBest(blocks'[id].parent, blocks'[id].body)
    \/ \E id \in DOMAIN blocks \ {block_id(genesis)} :
          AddBlockAsBest(blocks[id].parent, blocks[id].body)

\* C37 (state part): set_best takes any known block, whatever its height
SetBestTakesAnyKnownBlock == \A b \in DOMAIN blocks : ENABLED SetBest(b)

\* C37: a block the node stores has its parent's number plus 1; add_block
\* changes neither the best block nor an answer of best_block_at_height; only
\* set_best and add_block_as_best change the canonical chain, and set_best takes
\* any known block, whatever its height.
C37_AddBlockFrame ==
    /\ []SetBestTakesAnyKnownBlock
    /\ [][ /\ \A id \in DOMAIN blocks' \ DOMAIN blocks :
                 /\ blocks'[id].parent \in DOMAIN blocks
                 /\ blocks'[id].number = blocks[blocks'[id].parent].number + 1
           /\ IsAddBlock =>
                 /\ best_block' = best_block
                 /\ \A h \in QueryHeights :
                       best_block_at_height(blocks', best_block', h)
                           = best_block_at_height(blocks, best_block, h)
           /\ (/\ <<blocks, best_block>>' # <<blocks, best_block>>
               /\ \E h \in QueryHeights :
                     best_block_at_height(blocks', best_block', h)
                         # best_block_at_height(blocks, best_block, h)) => IsBestChange ]_vars

\* C37 witness: the node holds a block that is neither best nor canonical, and
\* its best block is lower than another block it knows
C37_Witness ==
    /\ last.op = "node"
    /\ \E b \in DOMAIN blocks :
          /\ blocks[b].number > blocks[best_block].number
          /\ ~IsAncestorOrSelf(blocks, best_block, b)

\* C38 (state part): entire_block delivers every block of the node's database
\* in full, canonical or not, and None for an id that was never added.
EntireBlockOfEveryKnownBlock ==
    /\ \A id \in DOMAIN blocks : entire_block(blocks, id) = Some(blocks[id])
    /\ entire_block(blocks, block_id([parent |-> best_block,
                                       number |-> blocks[best_block].number + 1,
                                       body |-> <<Tx(<<dummy>>, <<>>)>>])) = None

\* C38: entire_block(id) returns the full block for every block ever added,
\* whether or not it is still canonical, and None only for an id never added;
\* no operation of the node removes or changes a block.
C38_BlocksStayFetchable ==
    /\ []EntireBlockOfEveryKnownBlock
    /\ [][ \A id \in DOMAIN blocks :
              /\ id \in DOMAIN blocks'
              /\ entire_block(blocks', id) = Some(blocks[id]) ]_vars

\* C38 witness: a block that is not on the canonical chain, and has a child,
\* is delivered
C38_Witness ==
    \E id \in DOMAIN blocks : \E c \in DOMAIN blocks :
        /\ ~IsAncestorOrSelf(blocks, id, best_block)
        /\ blocks[c].number > 0 /\ blocks[c].parent = id
        /\ entire_block(blocks, id) = Some(blocks[id])

\* C39 (as claimed): how_many_queries() counts the queries made to the node over
\* the NodeEndpoint interface, best_block_at_height and entire_block calls alike:
\* over one sync of a node whose counter stood at 0 it shows the number of both.
C39_CountsAllQueries ==
    last.op = "sync" =>
        how_many_queries(calls_so_far_after(0, last.bbah, last.eb)) = last.bbah + last.eb

----------------------------------------------------------------------------
\* Claims about the change owner

\* C35: create_automatic_transaction never aborts on picking the owner of the
\* change: in every reachable state where a change output is needed the wallet
\* has a tracked address and the change goes to one; a wallet without tracked
\* addresses holds no coin, never needs a change output and so never reaches
\* the pick.
C35_ChangeOwner ==
    last.op = "auto" =>
        /\ last.res # Panic("unwrap on None")
        /\ (IsOk(last.res) /\ Len(last.res.val.outputs) >= 2) =>
              /\ addresses # {}
              /\ last.res.val.outputs[2].owner \in addresses
        /\ addresses = {} => (coins = {} /\ (IsOk(last.res) => Len(last.res.val.outputs) = 1))

\* C35 witness: a transaction with a change output that goes to a tracked
\* address
C35_Witness ==
    /\ last.op = "auto"
    /\ Leq(Plus(last.amount, last.tip), MaxU64)
    /\ IsOk(last.res)
    /\ Len(last.res.val.outputs) = 2
    /\ last.res.val.outputs[2].owner \in addresses
    /\ Less(U64(0), last.res.val.outputs[2].value)

----------------------------------------------------------------------------
\* Claims about a ledger that changes during a sync

\* C33 (as claimed): also when the canonical chain changes between two queries
\* of a sync call, the cursor the call leaves is coherent: genesis at height 0,
\* or a block the ledger reported during the call as canonical at exactly the
\* cursor's height; height and hash never describe different heights.
C33_CoherentCursor ==
    last.op = "synced" =>
        /\ \/ best_block_height = 0 /\ best_block_hash = block_id(genesis)
           \/ <<best_block_height, best_block_hash>> \in last.reported
        /\ blocks[best_block_hash].number = best_block_height

====
